---- MODULE Spec2Model ----
(***************************************************************************)
(* requirements_version_locker.py: one run of RequirementsVersionLocker    *)
(* (validate the two paths, parse the manifest, look every requirement up  *)
(* in the registry, write the hash-locked file) as a state machine.        *)
(*                                                                         *)
(* `app' is the run under study.  `twin' is a second run of the same       *)
(* program that starts from the same files, receives the same registry     *)
(* responses and the same I/O outcomes, and differs from `app' only in the *)
(* value of config['verbose_mode'] (and in the wall clock it reads).       *)
(***************************************************************************)
EXTENDS Integers, Sequences, FiniteSets, TLC

VARIABLES
    input,      \* the input file: whether it exists, and what parsing it yields
    out0,       \* the output file as it was before the run
    app,        \* the run: its config, its locals, its output file, its result
    twin,       \* the same run with the other value of verbose_mode
    registry,   \* the responses the registry has given, in order
    io          \* the outcomes of the open and write calls on the output file

vars == <<input, out0, app, twin, registry, io>>

\* ------------------------------------------------------------------ bounds

\* Longest manifest (number of requirement lines) that is explored.
MaxReqs == 2

\* ------------------------------------------------------- program constants

\* errno values returned by run() (Linux values of the errno module).
ENOENT == 2
EEXIST == 17
EIO == 5
\* run(): `return 1' of the fail-fast branch of the resolve loop.
RESOLVE_FAILED == 1
\* run(): `return 1' of the two handlers around write_requirements_file.
WRITE_FAILED == 1
\* run(): `return 0' after the file has been written.
SUCCESS == 0
\* Value of `ret' while run() has not returned (or has raised).
NO_RETURN == 0 - 1

\* ------------------------------------------------------------ environment

INPUT_FILE == "requirements.txt"
OUTPUT_FILE == "requirements-hash-locked.txt"

\* A pkg_resources Requirement: its name and its specs, the list of
\* (operator, version) pairs in the order of the line.
Requirement(name, specs) == [name |-> name, specs |-> specs]

Requirements ==
    { Requirement("foo", << >>),
      Requirement("foo", << <<"==", "1.0">> >>),
      Requirement("bar", << <<">=", "2.0">>, <<"<", "3.0">> >>) }

\* What parse_requirements yields for the content of the input file; the
\* second alternative stands for any exception raised while opening or
\* parsing it.
RECURSIVE SeqsUpTo(_, _)
SeqsUpTo(S, n) ==
    IF n = 0 THEN { << >> }
    ELSE LET shorter == SeqsUpTo(S, n - 1)
         IN  shorter \cup { Append(s, x) : s \in { t \in shorter : Len(t) = n - 1 }, x \in S }

Manifests ==
    { [parses |-> TRUE, requirements |-> r] : r \in SeqsUpTo(Requirements, MaxReqs) }
    \cup { [parses |-> FALSE, requirements |-> << >>] }

\* A file on disk: absent, or present with its lines.
Absent == [exists |-> FALSE, lines |-> << >>]
File(lines) == [exists |-> TRUE, lines |-> lines]
OldFiles == { Absent, File(<< <<"old content">> >>) }

\* One artifact of a release in the registry's JSON.
Artifact(digest) == [digests |-> [sha256 |-> digest]]
ArtifactWithoutSha256 == [digests |-> [md5 |-> "m1"]]

\* What the registry does with one request: the transport fails (or the
\* body is no JSON), or it answers with a JSON object.
Responses ==
    { [ok |-> FALSE, data |-> [message |-> "Not Found"]],
      [ok |-> TRUE, data |-> [info |-> "no urls"]],
      [ok |-> TRUE, data |-> [urls |-> << >>]],
      [ok |-> TRUE, data |-> [urls |-> << ArtifactWithoutSha256 >>]],
      [ok |-> TRUE, data |-> [urls |-> << Artifact("h1") >>]],
      [ok |-> TRUE, data |-> [urls |-> << Artifact("h1"), Artifact("h2") >>]] }

\* Stands for the response of a call that is never made.
NoRequest == [ok |-> FALSE, data |-> [message |-> "no request sent"]]

\* datetime.now().isoformat() of a run.
Timestamps == { "T1", "T2" }
OtherTimestamp(ts) == IF ts = "T1" THEN "T2" ELSE "T1"

Configs ==
    [ verbose_mode : BOOLEAN, input_file : { INPUT_FILE }, output_file : { OUTPUT_FILE },
      overwrite_mode : BOOLEAN, ignore_errors : BOOLEAN ]

\* ------------------------------------------------------------- class Package

Package(name, version, hashes) == [name |-> name, version |-> version, hashes |-> hashes]

NoPackage == Package("", "", << >>)

\* Package.get_file_lines: the text of one record, as its lines.  Every line
\* but the last ends in the continuation " \".
get_file_lines(package) ==
    LET n == Len(package.hashes)
        cont(last) == IF last THEN << >> ELSE << " \\" >>
    IN  << <<package.name, "==", package.version>> \o cont(n = 0) >>
        \o [ i \in 1..n |-> <<"    --hash=sha256:", package.hashes[i]>> \o cont(i = n) ]

\* Package.__str__
PackageStr(name, version) == <<name, "==", version>>

\* ------------------------------------------- RequirementsVersionLocker

\* str() of a bool, as the f-string of the header prints it.
PyStr(b) == IF b THEN "True" ELSE "False"

\* The keys of the config dict in insertion order (the order __main__ fills it).
ConfigKeys == <<"verbose_mode", "input_file", "output_file", "overwrite_mode", "ignore_errors">>

ConfigValue(config, key) ==
    CASE key = "verbose_mode" -> PyStr(config.verbose_mode)
      [] key = "input_file" -> config.input_file
      [] key = "output_file" -> config.output_file
      [] key = "overwrite_mode" -> PyStr(config.overwrite_mode)
      [] key = "ignore_errors" -> PyStr(config.ignore_errors)

\* get_required_packages: None when anything in the try block raises, else
\* the list of requirements in file order.
get_required_packages(requirements_file) ==
    IF requirements_file.content.parses
    THEN [none |-> FALSE, items |-> requirements_file.content.requirements]
    ELSE [none |-> TRUE, items |-> << >>]

\* Python truth value of get_required_packages' result: None and [] are false.
Truthy(packages) == ~packages.none /\ Len(packages.items) > 0

\* Outcome of a call: the value returned, or the exception raised.
Returned(package) == [raised |-> FALSE, exception |-> "", package |-> package]
Raised(exception) == [raised |-> TRUE, exception |-> exception, package |-> NoPackage]

\* get_package_details_from_api without its test of the number of hashes.
get_package_details_from_api_unchecked(package_name, package_version, response) ==
    IF ~response.ok THEN Raised("URLError")
    ELSE LET data == response.data IN
         IF "urls" \notin DOMAIN data THEN Raised("FileNotFoundError")
         ELSE LET data_dict == data.urls IN
              IF \E i \in DOMAIN data_dict : "sha256" \notin DOMAIN data_dict[i].digests
              THEN Raised("KeyError")
              ELSE Returned(Package(package_name, package_version,
                                    [ i \in DOMAIN data_dict |-> data_dict[i].digests.sha256 ]))

\* get_package_details_from_api, given what the registry does with the request.
get_package_details_from_api(package_name, package_version, response) ==
    IF ~response.ok THEN Raised("URLError")
    ELSE LET data == response.data IN
         IF "urls" \notin DOMAIN data THEN Raised("FileNotFoundError")
         ELSE LET data_dict == data.urls IN
              IF \E i \in DOMAIN data_dict : "sha256" \notin DOMAIN data_dict[i].digests
              THEN Raised("KeyError")
              ELSE LET hashes == [ i \in DOMAIN data_dict |-> data_dict[i].digests.sha256 ] IN
                   IF Len(hashes) < 1 THEN Raised("IndexError")
                   ELSE Returned(Package(package_name, package_version, hashes))

\* get_requirements_file_header, as the lines of the string it returns.
get_requirements_file_header(config, timestamp) ==
    << <<"#">>,
       <<"# This file was generated by requirements_version_locker.py.">>,
       <<"# See https://github.com/DougBarry/requirements_version_locker.">>,
       <<"#">>,
       <<"# Generation config:">> >>
    \o [ k \in DOMAIN ConfigKeys |-> <<"#\t", ConfigKeys[k], ": ", ConfigValue(config, ConfigKeys[k])>> ]
    \o << <<"#">>,
          <<"# Generation timestamp: ", timestamp>>,
          <<"#">> >>

\* get_requirements_file_footer, as the lines of the string it returns: no
\* line at all when nothing was skipped.  The warning is split by a newline
\* inside the literal, so its second half is a line that is no comment.
get_requirements_file_footer(skipped_packages) ==
    IF Len(skipped_packages) = 0 THEN << >>
    ELSE << <<"#">>,
            <<"# WARNING: Some packages were not pinned, possible due to version information not being available, or installed libraries">>,
            <<" being provided by the host OS are customised.">>,
            <<"#">> >>
         \o [ i \in DOMAIN skipped_packages |-> <<"#\t">> \o skipped_packages[i] ]

\* ------------------------------------------------------------------- run()

\* The state of one run: the config it was constructed with, the position
\* in run() / write_requirements_file(), the locals of run(), the output file
\* on disk, the registry requests issued so far, the value run() returned
\* and the exit status of the process.
NewRun(config, output) ==
    [ config |-> config,
      pc |-> "validate",
      input_packages |-> [none |-> TRUE, items |-> << >>],
      index |-> 1,
      output_packages |-> << >>,
      skipped_packages |-> << >>,
      written |-> 0,
      output |-> output,
      lookups |-> << >>,
      ret |-> NO_RETURN,
      result |-> 1 ]

\* `return code' in run().
Return(s, code) == [s EXCEPT !.pc = "returned", !.ret = code]

\* An exception leaves run() unhandled.
Propagate(s) == [s EXCEPT !.pc = "raised"]

\* run() without the test of overwrite_mode.
run_validate_overwriting(s, input_file) ==
    IF ~input_file.exists THEN Return(s, ENOENT)
    ELSE [s EXCEPT !.pc = "parse"]

\* run(), the checks of the two paths.
run_validate(s, input_file) ==
    IF ~input_file.exists THEN Return(s, ENOENT)
    ELSE IF s.output.exists /\ ~s.config.overwrite_mode THEN Return(s, EEXIST)
    ELSE [s EXCEPT !.pc = "parse"]

\* run() returning ENOENT for an input file that cannot be read.
run_parse_enoent(s, input_file) ==
    LET input_packages == get_required_packages(input_file)
    IN  IF ~Truthy(input_packages) THEN Return(s, ENOENT)
        ELSE [s EXCEPT !.pc = "resolve", !.input_packages = input_packages, !.index = 1]

\* run(), the call of get_required_packages and the test of its result.
run_parse(s, input_file) ==
    LET input_packages == get_required_packages(input_file)
    IN  IF ~Truthy(input_packages) THEN Return(s, EIO)
        ELSE [s EXCEPT !.pc = "resolve", !.input_packages = input_packages, !.index = 1]

\* The for loop of run() moves to its next element, or ends.
NextPackage(s) ==
    IF s.index < Len(s.input_packages.items)
    THEN [s EXCEPT !.index = @ + 1]
    ELSE [s EXCEPT !.pc = "open"]

\* One iteration of the for loop with the test of ignore_errors changed:
\* `fatal' tells, from the run, whether a failed lookup ends the run.
resolve_with_policy(s, response, fatal) ==
    LET package == s.input_packages.items[s.index]
    IN  IF Len(package.specs) = 0 THEN Propagate(s)
        ELSE LET version == package.specs[1][2]
                 details == get_package_details_from_api(package.name, version, response)
                 called == [s EXCEPT !.lookups = Append(@, <<package.name, version>>)]
             IN  IF ~details.raised
                 THEN NextPackage([called EXCEPT !.output_packages = Append(@, details.package)])
                 ELSE LET skipped == [called EXCEPT !.skipped_packages =
                                          Append(@, PackageStr(package.name, version))]
                      IN  IF fatal THEN Return(skipped, RESOLVE_FAILED)
                          ELSE NextPackage(skipped)

\* The loop never ending the run on a failed lookup.
run_resolve_never_fatal(s, response) == resolve_with_policy(s, response, FALSE)

\* The loop ending the run on a failed lookup in verbose mode as well.
run_resolve_verbose_fatal(s, response) ==
    resolve_with_policy(s, response, ~s.config.ignore_errors \/ s.config.verbose_mode)

\* run(), one iteration of the for loop.  package.specs[0][1] raises
\* IndexError when the requirement has no specifier: first in the try block,
\* before the call, and then again in the except block, which nothing catches.
run_resolve(s, response) ==
    LET package == s.input_packages.items[s.index]
    IN  IF Len(package.specs) = 0 THEN Propagate(s)
        ELSE LET version == package.specs[1][2]
                 details == get_package_details_from_api(package.name, version, response)
                 called == [s EXCEPT !.lookups = Append(@, <<package.name, version>>)]
             IN  IF ~details.raised
                 THEN NextPackage([called EXCEPT !.output_packages = Append(@, details.package)])
                 ELSE LET skipped == [called EXCEPT !.skipped_packages =
                                          Append(@, PackageStr(package.name, version))]
                      IN  IF ~s.config.ignore_errors THEN Return(skipped, RESOLVE_FAILED)
                          ELSE NextPackage(skipped)

\* write_requirements_file, open('w'): creates or truncates the file.  An
\* exception of it, as of every write below, is caught in run(): return 1.
write_open(s, ok) ==
    IF ~ok THEN Return(s, WRITE_FAILED)
    ELSE [s EXCEPT !.pc = "header", !.output = File(<< >>), !.written = 0]

\* write_requirements_file, the header.
write_header(s, ok, timestamp) ==
    IF ~ok THEN Return(s, WRITE_FAILED)
    ELSE [s EXCEPT !.pc = IF Len(s.output_packages) > 0 THEN "package" ELSE "footer",
                   !.output = File(@.lines \o get_requirements_file_header(s.config, timestamp))]

\* The loop over output_packages running from the last package to the first.
write_package_reversed(s, ok) ==
    IF ~ok THEN Return(s, WRITE_FAILED)
    ELSE LET package == s.output_packages[Len(s.output_packages) - s.written]
         IN  [s EXCEPT !.pc = IF s.written + 1 < Len(s.output_packages) THEN "package" ELSE "footer",
                       !.written = @ + 1,
                       !.output = File(@.lines \o get_file_lines(package))]

\* write_requirements_file, one iteration of the loop over output_packages.
write_package(s, ok) ==
    IF ~ok THEN Return(s, WRITE_FAILED)
    ELSE LET package == s.output_packages[s.written + 1]
         IN  [s EXCEPT !.pc = IF s.written + 1 < Len(s.output_packages) THEN "package" ELSE "footer",
                       !.written = @ + 1,
                       !.output = File(@.lines \o get_file_lines(package))]

\* write_requirements_file, the footer and the end of the with block; run()
\* then returns 0.
write_footer(s, ok) ==
    IF ~ok THEN Return(s, WRITE_FAILED)
    ELSE Return([s EXCEPT !.output = File(@.lines \o get_requirements_file_footer(s.skipped_packages))],
                SUCCESS)

\* __main__: result is what run() returned, or 1 when run() raised.
main_exit(s) ==
    [s EXCEPT !.pc = "exited", !.result = IF s.pc = "returned" THEN s.ret ELSE 1]

\* ---------------------------------------------------------- specification

\* The twin is given the other value of verbose_mode and nothing else differs.
TwinConfig(config) == [config EXCEPT !.verbose_mode = ~@]

Init ==
    /\ input \in { [exists |-> TRUE, content |-> m] : m \in Manifests }
                 \cup { [exists |-> FALSE, content |-> [parses |-> FALSE, requirements |-> << >>]] }
    /\ out0 \in OldFiles
    /\ \E config \in Configs :
          /\ app = NewRun(config, out0)
          /\ twin = NewRun(TwinConfig(config), out0)
    /\ registry = << >>
    /\ io = << >>

\* Both runs take the same step of the program when both are at the same
\* place: a is the run after the step, t the twin after it.
Both(a, t) ==
    /\ app' = a
    /\ twin' = IF twin.pc = app.pc THEN t ELSE twin

ValidateInputs ==
    /\ app.pc = "validate"
    /\ Both(run_validate(app, input), run_validate(twin, input))
    /\ UNCHANGED <<input, out0, registry, io>>

Parse ==
    /\ app.pc = "parse"
    /\ Both(run_parse(app, input), run_parse(twin, input))
    /\ UNCHANGED <<input, out0, registry, io>>

HasVersion(s) == Len(s.input_packages.items[s.index].specs) > 0

\* An iteration of the resolve loop that reaches the registry.
Resolve ==
    /\ app.pc = "resolve"
    /\ HasVersion(app)
    /\ \E response \in Responses :
          /\ Both(run_resolve(app, response), run_resolve(twin, response))
          /\ registry' = Append(registry, response)
    /\ UNCHANGED <<input, out0, io>>

\* An iteration of the resolve loop on a requirement without a specifier:
\* the call is never made, the registry sees no request.
ResolveNoVersion ==
    /\ app.pc = "resolve"
    /\ ~HasVersion(app)
    /\ Both(run_resolve(app, NoRequest), run_resolve(twin, NoRequest))
    /\ UNCHANGED <<input, out0, registry, io>>

WriteOpen ==
    /\ app.pc = "open"
    /\ \E ok \in BOOLEAN :
          /\ Both(write_open(app, ok), write_open(twin, ok))
          /\ io' = Append(io, ok)
    /\ UNCHANGED <<input, out0, registry>>

\* The two runs read the clock at different times.
WriteHeader ==
    /\ app.pc = "header"
    /\ \E ok \in BOOLEAN, timestamp \in Timestamps :
          /\ app' = write_header(app, ok, timestamp)
          /\ twin' = IF twin.pc = app.pc
                     THEN write_header(twin, ok, OtherTimestamp(timestamp))
                     ELSE twin
          /\ io' = Append(io, ok)
    /\ UNCHANGED <<input, out0, registry>>

WritePackage ==
    /\ app.pc = "package"
    /\ \E ok \in BOOLEAN :
          /\ Both(write_package(app, ok), write_package(twin, ok))
          /\ io' = Append(io, ok)
    /\ UNCHANGED <<input, out0, registry>>

WriteFooter ==
    /\ app.pc = "footer"
    /\ \E ok \in BOOLEAN :
          /\ Both(write_footer(app, ok), write_footer(twin, ok))
          /\ io' = Append(io, ok)
    /\ UNCHANGED <<input, out0, registry>>

Exit ==
    /\ app.pc \in {"returned", "raised"}
    /\ Both(main_exit(app), main_exit(twin))
    /\ UNCHANGED <<input, out0, registry, io>>

Next ==
    \/ ValidateInputs
    \/ Parse
    \/ Resolve
    \/ ResolveNoVersion
    \/ WriteOpen
    \/ WriteHeader
    \/ WritePackage
    \/ WriteFooter
    \/ Exit

Spec == Init /\ [][Next]_vars

\* ------------------------------------------------- vocabulary of the claims

IsPrefix(a, b) == Len(a) <= Len(b) /\ \A i \in 1..Len(a) : a[i] = b[i]

\* The requirements the parser produced (empty before Parse and when it failed).
Parsed == app.input_packages.items

N == Len(Parsed)

PassedParse == app.pc \notin {"validate", "parse"} /\ N > 0

\* run() is over: it returned or raised (and the process may have exited).
Over(s) == s.pc \in {"returned", "raised", "exited"}

HasReturned(s) == s.pc \in {"returned", "exited"} /\ s.ret # NO_RETURN

\* The run ended in the Aborted state.
Aborted(s) == Over(s) /\ s.ret # SUCCESS

\* A response from which a record with at least one checksum can be built.
Resolvable(response) ==
    /\ response.ok
    /\ "urls" \in DOMAIN response.data
    /\ Len(response.data.urls) >= 1
    /\ \A k \in DOMAIN response.data.urls : "sha256" \in DOMAIN response.data.urls[k].digests

Digests(response) == [ k \in DOMAIN response.data.urls |-> response.data.urls[k].digests.sha256 ]

\* The i-th registry lookup of the run failed.
LookupFailed(i) == ~Resolvable(registry[i])

SomeLookupFailed == \E i \in DOMAIN registry : LookupFailed(i)

\* The version run() resolves a requirement at: the first specifier's.
HasSpecifier(requirement) == Len(requirement.specs) > 0
VersionOf(requirement) == IF HasSpecifier(requirement) THEN requirement.specs[1][2] ELSE ""
KeyOf(requirement) == <<requirement.name, VersionOf(requirement)>>

\* The loop of run() has dealt with the i-th requirement.
Reached(i) ==
    /\ PassedParse
    /\ i \in 1..N
    /\ \/ app.index > i
       \/ app.index = i /\ app.pc # "resolve"

\* Reading the output file back: its lines by kind, and its records.
IsSkipLine(line) == Len(line) = 4 /\ line[1] = "#\t" /\ line[3] = "=="
IsRecordLine(line) == Len(line) >= 3 /\ line[1] # "#\t" /\ line[2] = "=="
IsHashLine(line) == Len(line) >= 2 /\ line[1] = "    --hash=sha256:"
IsTimestampLine(line) == Len(line) = 2 /\ line[1] = "# Generation timestamp: "
IsVerboseLine(line) == Len(line) = 4 /\ line[1] = "#\t" /\ line[2] = "verbose_mode"

RECURSIVE ReadRecords(_, _)
ReadRecords(lines, acc) ==
    IF lines = << >> THEN acc
    ELSE LET line == Head(lines) IN
         IF IsRecordLine(line)
         THEN ReadRecords(Tail(lines), Append(acc, Package(line[1], line[3], << >>)))
         ELSE IF IsHashLine(line) /\ Len(acc) > 0
         THEN ReadRecords(Tail(lines), [acc EXCEPT ![Len(acc)].hashes = Append(@, line[2])])
         ELSE ReadRecords(Tail(lines), acc)

RecordsOf(file) == ReadRecords(file.lines, << >>)

\* The name==version entries of the footer, in file order.
SkipEntriesOf(file) ==
    LET skip == SelectSeq(file.lines, IsSkipLine)
    IN  [ i \in DOMAIN skip |-> <<skip[i][2], skip[i][4]>> ]

\* The header takes a fixed number of lines; what follows the records is
\* the footer.
HeaderLines == 5 + Len(ConfigKeys) + 3
HasFooter(file) ==
    \E i \in DOMAIN file.lines :
        i > HeaderLines /\ ~IsRecordLine(file.lines[i]) /\ ~IsHashLine(file.lines[i])

\* The run wrote the file this run: every open and write call succeeded.
RenderCompleted ==
    /\ Len(io) = 3 + Len(app.output_packages)
    /\ \A k \in DOMAIN io : io[k]

\* ------------------------------------------------------------------ claims

\* C1: when ignore_errors is false and a registry lookup has failed, run()
\* has returned a non-zero status and the output file is exactly what it was
\* before the run (absent, or present with its old content), also when
\* overwrite_mode is true and the file already existed.
C1_FailFastLeavesOutput ==
    (~app.config.ignore_errors /\ SomeLookupFailed) =>
        /\ HasReturned(app)
        /\ app.ret # SUCCESS
        /\ app.output = out0
        /\ app.pc = "exited" => app.result # 0

C1_Witness ==
    /\ ~app.config.ignore_errors
    /\ app.config.overwrite_mode
    /\ out0.exists
    /\ Len(registry) >= 2
    /\ LookupFailed(Len(registry))
    /\ app.pc = "exited"
    /\ app.output = out0

\* The i-th requirement could not be resolved: it has no version, or its
\* lookup failed.  (Lookup i is the one of requirement i as long as every
\* requirement before it has a version.)
Unresolved(i) ==
    \/ ~HasSpecifier(Parsed[i])
    \/ i \in DOMAIN registry /\ LookupFailed(i)

\* No open or write call on the output file has failed.
NoWriteFailed == \A k \in DOMAIN io : io[k]

\* C2: a run with ignore_errors that passed validation and parsing (and in
\* which no write to the output file fails) ends with status 0, the records
\* of the file are the requirements that resolved, and the footer lists
\* every requirement that did not, as name==version, once.
C2_SkippedListedOnce ==
    (app.config.ignore_errors /\ PassedParse /\ Over(app) /\ NoWriteFailed) =>
        /\ HasReturned(app)
        /\ app.ret = SUCCESS
        /\ LET failed == SelectSeq([ i \in 1..N |-> i ], Unresolved)
               resolved == SelectSeq([ i \in 1..N |-> i ], LAMBDA i : ~Unresolved(i))
           IN  /\ SkipEntriesOf(app.output) = [ j \in DOMAIN failed |-> KeyOf(Parsed[failed[j]]) ]
               /\ LET records == RecordsOf(app.output)
                  IN  /\ Len(records) = Len(resolved)
                      /\ \A j \in DOMAIN resolved :
                            <<records[j].name, records[j].version>> = KeyOf(Parsed[resolved[j]])

\* C3: a requirement without a version specifier goes the way of a failed
\* lookup: it is appended to the skipped list, the run goes on when
\* ignore_errors is true and returns the fail-fast status when it is false,
\* and run() does not end with an unhandled exception.
C3_NoVersionIsSkipped ==
    \A i \in 1..N :
        (Reached(i) /\ ~HasSpecifier(Parsed[i])) =>
            /\ app.pc # "raised"
            /\ ~(app.pc = "exited" /\ app.ret = NO_RETURN)
            /\ \E j \in DOMAIN app.skipped_packages :
                  app.skipped_packages[j][1] = Parsed[i].name
            /\ ~app.config.ignore_errors =>
                  /\ HasReturned(app)
                  /\ app.ret = RESOLVE_FAILED
                  /\ app.index = i

\* Every requirement was looked up and the registry resolved every one.
AllResolved ==
    /\ PassedParse
    /\ Len(registry) = N
    /\ \A i \in 1..N : Resolvable(registry[i])

ExpectedRecords ==
    [ i \in 1..N |-> Package(Parsed[i].name, VersionOf(Parsed[i]), Digests(registry[i])) ]

\* C4: when the registry resolved all N >= 1 requirements, the file written
\* by a run that completed holds exactly N records, the i-th one being the
\* i-th requirement with the digests of its lookup, and no footer; while it
\* is being written its records are a prefix of those, never out of order.
C4_AllResolvedInOrder ==
    AllResolved =>
        /\ IsPrefix(RecordsOf(app.output), ExpectedRecords)
        /\ ~HasFooter(app.output)
        /\ (HasReturned(app) /\ app.ret = SUCCESS) =>
              /\ RecordsOf(app.output) = ExpectedRecords
              /\ Len(RecordsOf(app.output)) = N

C4_Witness ==
    /\ AllResolved
    /\ N >= 2
    /\ Parsed[1] # Parsed[2]
    /\ Len(Digests(registry[1])) = 2
    /\ app.pc = "exited"
    /\ app.ret = SUCCESS
    /\ Len(RecordsOf(app.output)) = N

\* C5: a run that ended aborted, for whatever reason, left the output file
\* as it was before the run; the file differs only after a run with status 0.
C5_AbortLeavesOutput ==
    Aborted(app) => app.output = out0

\* The terminal state of the run, told from what the environment did, not
\* from what run() returned.
FailureClasses ==
    {"input not found", "output already exists", "parse/read failure",
     "resolution failure", "write failure"}

TerminalState ==
    IF ~input.exists THEN "input not found"
    ELSE IF out0.exists /\ ~app.config.overwrite_mode THEN "output already exists"
    ELSE IF ~input.content.parses \/ Len(input.content.requirements) = 0 THEN "parse/read failure"
    ELSE IF ~app.config.ignore_errors /\ SomeLookupFailed THEN "resolution failure"
    ELSE IF \E k \in DOMAIN io : ~io[k] THEN "write failure"
    ELSE "done"

\* The status run() returns in each terminal state.
ReturnCode(state) ==
    CASE state = "input not found" -> ENOENT
      [] state = "output already exists" -> EEXIST
      [] state = "parse/read failure" -> EIO
      [] state = "resolution failure" -> RESOLVE_FAILED
      [] state = "write failure" -> WRITE_FAILED
      [] state = "done" -> SUCCESS

\* C6: the status run() returned identifies the terminal state: it is
\* non-zero in each of the five failure classes, it is the status of no
\* other failure class, and it is 0 only when Render completed and the file
\* was written.
C6_StatusIdentifiesState ==
    HasReturned(app) =>
        /\ TerminalState \in FailureClasses =>
              /\ app.ret # SUCCESS
              /\ \A other \in FailureClasses \ {TerminalState} : app.ret # ReturnCode(other)
        /\ app.ret = SUCCESS => (RenderCompleted /\ app.output.exists /\ app.output # out0)

\* C6 as amended: run() returns ENOENT, EEXIST and EIO for the first three
\* failure classes and the same generic 1 for a fail-fast resolution failure
\* and for a write failure; the four values are non-zero and distinct from
\* one another; 0 is returned only when Render completed and the file was
\* written.
C6_StatusUpToGenericFailure ==
    /\ Cardinality({SUCCESS, ENOENT, EEXIST, EIO, RESOLVE_FAILED}) = 5
    /\ HasReturned(app) =>
          /\ app.ret = ReturnCode(TerminalState)
          /\ TerminalState \in FailureClasses => app.ret # SUCCESS
          /\ TerminalState \in {"input not found", "output already exists", "parse/read failure"} =>
                \A other \in FailureClasses \ {TerminalState} : app.ret # ReturnCode(other)
          /\ TerminalState \in {"resolution failure", "write failure"} =>
                /\ app.ret = 1
                /\ app.ret \notin {ENOENT, EEXIST, EIO}
          /\ app.ret = SUCCESS => (RenderCompleted /\ app.output.exists /\ app.output # out0)

C6_Witness ==
    /\ app.pc = "exited"
    /\ TerminalState = "write failure"
    /\ app.ret = WRITE_FAILED
    /\ app.config.ignore_errors
    /\ SomeLookupFailed

\* What C7 lets two runs differ in: the timestamp of the header.
MaskTimestamp(lines) ==
    [ i \in DOMAIN lines |->
        IF IsTimestampLine(lines[i]) THEN <<lines[i][1], "...">> ELSE lines[i] ]

\* The same, and the value on the header's verbose_mode line.
MaskVerbose(lines) ==
    [ i \in DOMAIN lines |->
        IF IsVerboseLine(lines[i]) THEN <<lines[i][1], lines[i][2], lines[i][3], "...">>
        ELSE lines[i] ]

SameControlFlow ==
    /\ twin.pc = app.pc
    /\ twin.ret = app.ret
    /\ twin.result = app.result
    /\ twin.lookups = app.lookups
    /\ twin.index = app.index
    /\ twin.output.exists = app.output.exists

\* C7: two runs that differ only in verbose_mode have the same exit status,
\* issue the same registry lookups and write the same content, the
\* generation timestamp excepted.
C7_VerboseChangesNothing ==
    /\ SameControlFlow
    /\ MaskTimestamp(twin.output.lines) = MaskTimestamp(app.output.lines)

\* C7 as amended: ... and write the same content, except for the generation
\* timestamp and for the value on the verbose_mode line of the generation
\* config that the header records.
C7_VerboseChangesOnlyItsHeaderLine ==
    /\ SameControlFlow
    /\ MaskVerbose(MaskTimestamp(twin.output.lines)) = MaskVerbose(MaskTimestamp(app.output.lines))
    /\ twin.output_packages = app.output_packages
    /\ twin.skipped_packages = app.skipped_packages

C7_Witness ==
    /\ app.pc = "exited"
    /\ app.ret = SUCCESS
    /\ twin.config.verbose_mode # app.config.verbose_mode
    /\ twin.output.lines # app.output.lines
    /\ Len(app.output_packages) >= 1
    /\ Len(app.skipped_packages) >= 1

\* Nothing was parsed, looked up or written.
NoActivity ==
    /\ app.input_packages.none
    /\ app.lookups = << >>
    /\ registry = << >>
    /\ io = << >>
    /\ app.output = out0

\* C8: when the output file exists at the start and overwrite_mode is false,
\* the run returns EEXIST, the file keeps its content, and nothing is
\* parsed, looked up or written.
C8_ExistingOutputAborts ==
    (out0.exists /\ ~app.config.overwrite_mode /\ app.pc # "validate") =>
        /\ HasReturned(app)
        /\ app.ret = EEXIST
        /\ NoActivity

\* C8 as amended: ... and the input file exists, the run returns EEXIST;
\* when the input file is missing as well the run returns ENOENT instead; in
\* both cases the file keeps its content and nothing is parsed, looked up or
\* written.
C8_ExistingOutputAbortsAfterInputCheck ==
    (out0.exists /\ ~app.config.overwrite_mode /\ app.pc # "validate") =>
        /\ HasReturned(app)
        /\ app.ret = IF input.exists THEN EEXIST ELSE ENOENT
        /\ NoActivity

C8_Witness ==
    /\ out0.exists
    /\ ~app.config.overwrite_mode
    /\ input.exists
    /\ input.content.parses
    /\ Len(input.content.requirements) >= 1
    /\ app.pc = "exited"
    /\ app.ret = EEXIST

\* A response whose artifact list is present and empty, and one without the
\* artifact list.
EmptyHashSet(response) ==
    response.ok /\ "urls" \in DOMAIN response.data /\ Len(response.data.urls) = 0
MalformedResponse(response) ==
    response.ok /\ "urls" \notin DOMAIN response.data

\* C9: every record of the resolved list, and every record of the written
\* file, has at least one checksum; a lookup answered with an empty artifact
\* list or without one adds nothing to the resolved list and puts the
\* requirement on the skipped list.
C9_NoRecordWithoutChecksum ==
    /\ \A j \in DOMAIN app.output_packages : Len(app.output_packages[j].hashes) >= 1
    /\ LET records == RecordsOf(app.output)
       IN  \A j \in DOMAIN records : Len(records[j].hashes) >= 1
    /\ LET lookup == [ i \in 1..Len(registry) |-> i ]
           resolved == SelectSeq(lookup, LAMBDA i : Resolvable(registry[i]))
           failed == SelectSeq(lookup, LookupFailed)
       IN  /\ Len(registry) = Len(app.lookups)
           /\ app.output_packages =
                 [ j \in DOMAIN resolved |->
                     Package(app.lookups[resolved[j]][1], app.lookups[resolved[j]][2],
                             Digests(registry[resolved[j]])) ]
           /\ app.skipped_packages =
                 [ j \in DOMAIN failed |->
                     <<app.lookups[failed[j]][1], "==", app.lookups[failed[j]][2]>> ]
    /\ \A i \in DOMAIN registry :
          (EmptyHashSet(registry[i]) \/ MalformedResponse(registry[i])) => LookupFailed(i)

C9_Witness ==
    /\ app.pc = "exited"
    /\ app.ret = SUCCESS
    /\ Len(registry) = 2
    /\ EmptyHashSet(registry[1])
    /\ MalformedResponse(registry[2])
    /\ app.output_packages = << >>
    /\ Len(app.skipped_packages) = 2
    /\ RecordsOf(app.output) = << >>
    /\ Len(SkipEntriesOf(app.output)) = 2

\* C10: the lookups are issued in input order, one per requirement at most:
\* they are always a prefix of the parsed requirements; when run() is over
\* they are all of them if ignore_errors is true or no lookup failed, and
\* they end with the first failed lookup if ignore_errors is false; the file
\* is opened for writing at most once, and only after the last lookup.
C10_LookupsInInputOrder ==
    LET wanted == [ i \in 1..N |-> KeyOf(Parsed[i]) ]
    IN  /\ IsPrefix(app.lookups, wanted)
        /\ Len(registry) = Len(app.lookups)
        /\ (PassedParse /\ Over(app)) =>
              IF app.config.ignore_errors \/ ~SomeLookupFailed
              THEN app.lookups = wanted
              ELSE /\ LookupFailed(Len(registry))
                   /\ \A i \in 1..(Len(registry) - 1) : ~LookupFailed(i)
        /\ io # << >> => (PassedParse /\ app.lookups = wanted /\ app.index = N)
        /\ Len(io) <= 3 + Len(app.output_packages)

====
